---- MODULE Spec2Model ----
(***************************************************************************)
(* Channel handle of stream-chat-go (channel.go): the local Channel        *)
(* record, the merge of a queryResponse into it (updateChannel) and the    *)
(* channel-scoped operations that build a request, call the RestClient and *)
(* possibly merge the answer.                                              *)
(*                                                                         *)
(* Three specifications share the definitions of the handlers:             *)
(*   MergeSpec  - updateChannel as a pure function over bounded inputs;    *)
(*   Spec       - sequences of operations against a RestClient that may    *)
(*                answer anything (any error, any decoded response);       *)
(*   ServerSpec - the same operations against a remote service that keeps  *)
(*                channel state and answers from it.                       *)
(***************************************************************************)
EXTENDS Integers, Sequences, FiniteSets, TLC

VARIABLES
    ch,     \* the *Channel handle the caller holds (Nil: CreateChannel returned nil)
    op,     \* name of the operation that completed last
    args,   \* its arguments
    err,    \* the error it returned (OK: nil error)
    sent,   \* the RestClient calls it made, in order
    resp,   \* MergeSpec: the queryResponse handed to updateChannel
    srv     \* ServerSpec: the state of the remote service

vars == <<ch, op, args, err, sent, resp, srv>>

-----------------------------------------------------------------------------
(* Bounds *)

\* longest list, and largest member_count, in a response of MergeSpec
MaxLen == 1
\* most messages the remote service of ServerSpec stores
MaxMessages == 1

-----------------------------------------------------------------------------
(* Go values *)

\* nil pointer, nil map, nil interface
Nil == [nil |-> TRUE]

\* nil error
OK == "<nil>"

\* nil RestClient
NoClient == "no client"

\* a slice: nil, or a sequence of elements (possibly empty)
NilSlice == [isNil |-> TRUE, elems |-> <<>>]
Slice(s) == [isNil |-> FALSE, elems |-> s]
SliceLen(s) == Len(s.elems)

\* map[string]interface{}
EmptyMap == [k \in {} |-> TRUE]
MapPut(m, k, v) == [x \in (DOMAIN m) \cup {k} |-> IF x = k THEN v ELSE m[x]]

RECURSIVE SeqsUpTo(_, _)
SeqsUpTo(S, n) ==
    IF n = 0 THEN {<<>>}
    ELSE LET shorter == SeqsUpTo(S, n - 1)
         IN  shorter \cup {Append(s, x) : s \in {t \in shorter : Len(t) = n - 1}, x \in S}

\* every slice of at most n elements of S, and the nil slice
Slices(S, n) == {NilSlice} \cup {Slice(s) : s \in SeqsUpTo(S, n)}

Range(s) == {s[i] : i \in 1..Len(s)}

-----------------------------------------------------------------------------
(* Entities *)

Users == {"u1", "u2"}
Clients == {"client1", "client2"}

User(id) == [ID |-> id]

\* time.Time as a number, 0 the zero time; *time.Time as a number too, 0 nil
ZeroTime == 0

ChannelMember(u, role, invited, accepted, rejected) ==
    [UserID |-> u, User |-> User(u), Role |-> role, Invited |-> invited,
     InviteAcceptedAt |-> accepted, InviteRejectedAt |-> rejected]

Member(u) == ChannelMember(u, "member", FALSE, 0, 0)

Message(id) == [ID |-> id]

ChannelConfig(readEvents) == [ReadEvents |-> readEvents]

\* the Channel struct
Channel(id, type, cid, config, by, frozen, count, members, messages, read, created, updated, last, client) ==
    [ID |-> id, Type |-> type, CID |-> cid, Config |-> config,
     CreatedBy |-> by, Frozen |-> frozen, MemberCount |-> count,
     Members |-> members, Messages |-> messages, Read |-> read,
     CreatedAt |-> created, UpdatedAt |-> updated, LastMessageAt |-> last,
     client |-> client]

\* the fields of a Channel that are neither a list nor the client
MetaFields == {"ID", "Type", "CID", "Config", "CreatedBy", "Frozen", "MemberCount",
               "CreatedAt", "UpdatedAt", "LastMessageAt"}
ListFields == {"Members", "Messages", "Read"}

\* &Channel{Type: ..., ID: ..., CreatedBy: &User{ID: userID}, client: client}
NewChannel(client, options, userID) ==
    Channel(options.ID, options.Type, "", ChannelConfig(FALSE), User(userID), FALSE, 0,
            NilSlice, NilSlice, NilSlice, ZeroTime, ZeroTime, ZeroTime, client)

\* the queryResponse struct
queryResponse(channel, messages, members, read) ==
    [Channel |-> channel, Messages |-> messages, Members |-> members, Read |-> read]

\* the remote service before any request: the channel does not exist
SrvInit ==
    [exists |-> FALSE, createdBy |-> "", members |-> <<>>, messages |-> <<>>,
     read |-> <<>>, banned |-> {}]

-----------------------------------------------------------------------------
(* The merge *)

\* a merge that appends the lists of the response to the handle's
updateChannelAppends(q, c) ==
    LET c1 == IF q.Channel # Nil THEN [q.Channel EXCEPT !.client = c.client] ELSE c
        c2 == IF ~q.Members.isNil
              THEN [c1 EXCEPT !.Members = Slice(c1.Members.elems \o q.Members.elems)] ELSE c1
        c3 == IF ~q.Messages.isNil
              THEN [c2 EXCEPT !.Messages = Slice(c2.Messages.elems \o q.Messages.elems)] ELSE c2
    IN  IF ~q.Read.isNil THEN [c3 EXCEPT !.Read = Slice(c3.Read.elems \o q.Read.elems)] ELSE c3

\* a merge that replaces the metadata and never the member list
updateChannelKeepsMembers(q, c) ==
    LET c1 == IF q.Channel # Nil
              THEN [q.Channel EXCEPT !.client = c.client, !.Members = c.Members] ELSE c
        c3 == IF ~q.Messages.isNil THEN [c1 EXCEPT !.Messages = q.Messages] ELSE c1
    IN  IF ~q.Read.isNil THEN [c3 EXCEPT !.Read = q.Read] ELSE c3

updateChannelLosesClient(q, c) ==
    LET c1 == IF q.Channel # Nil THEN q.Channel ELSE c
        c2 == IF ~q.Members.isNil THEN [c1 EXCEPT !.Members = q.Members] ELSE c1
        c3 == IF ~q.Messages.isNil THEN [c2 EXCEPT !.Messages = q.Messages] ELSE c2
    IN  IF ~q.Read.isNil THEN [c3 EXCEPT !.Read = q.Read] ELSE c3

updateChannel(q, c) ==
    LET c1 == IF q.Channel # Nil
              THEN [q.Channel EXCEPT !.client = c.client]
              ELSE c
        c2 == IF ~q.Members.isNil THEN [c1 EXCEPT !.Members = q.Members] ELSE c1
        c3 == IF ~q.Messages.isNil THEN [c2 EXCEPT !.Messages = q.Messages] ELSE c2
    IN  IF ~q.Read.isNil THEN [c3 EXCEPT !.Read = q.Read] ELSE c3

-----------------------------------------------------------------------------
(* Decoded responses *)

\* (type, id) pairs the service may report
Idents == {[Type |-> "messaging", ID |-> "general"], [Type |-> "team", ID |-> "a/b"]}

MkCID(type, id) == type \o ":" \o id

\* a channel object as encoding/json decodes it: the unexported client field
\* is never set by the decoder
DecodedChannel(ident, cid, createdBy, frozen, memberCount, lists, stamp) ==
    Channel(ident.ID, ident.Type, cid, ChannelConfig(frozen), createdBy, frozen,
            memberCount, lists.Members, lists.Messages, lists.Read,
            1, stamp, stamp, NoClient)

NoLists == [Members |-> NilSlice, Messages |-> NilSlice, Read |-> NilSlice]
SomeLists == [Members |-> Slice(<<Member("u2")>>), Messages |-> Slice(<<Message("m2")>>),
              Read |-> Slice(<<User("u2")>>)]

\* channel objects of MergeSpec
MergeChannels ==
    {DecodedChannel(i, IF hasCID THEN MkCID(i.Type, i.ID) ELSE "", cb, f, n, l, t) :
        i \in Idents, hasCID \in BOOLEAN,
        cb \in {Nil} \cup {User(u) : u \in Users}, f \in BOOLEAN,
        n \in 0..MaxLen, l \in {NoLists, SomeLists}, t \in {1, 2}}

\* responses of MergeSpec
MergeResponses ==
    {queryResponse(c, ms, mb, rd) :
        c \in {Nil} \cup MergeChannels,
        ms \in Slices({Message("m1")}, MaxLen),
        mb \in Slices({Member(u) : u \in Users}, MaxLen),
        rd \in Slices({User("u1")}, MaxLen)}

\* handles of MergeSpec: as CreateChannel builds them, or as an earlier merge
\* left them
MergeHandles ==
    {[h EXCEPT !.client = c, !.Members = l.Members, !.Messages = l.Messages,
               !.Read = l.Read] :
        h \in {NewChannel(NoClient, [Type |-> "messaging", ID |-> "general"], "u1"),
               DecodedChannel([Type |-> "messaging", ID |-> "general"],
                              "messaging:general", User("u1"), TRUE, 1, NoLists, 3)},
        c \in Clients,
        l \in {NoLists, SomeLists,
               [NoLists EXCEPT !.Members = Slice(<<Member("u1")>>)],
               [SomeLists EXCEPT !.Members = Slice(<<>>)]}}

MergeInit ==
    /\ ch \in MergeHandles
    /\ resp \in MergeResponses
    /\ op = "init"
    /\ args = EmptyMap
    /\ err = OK
    /\ sent = <<>>
    /\ srv = SrvInit

\* resp.updateChannel(ch)
Merge ==
    /\ op = "init"
    /\ ch' = updateChannel(resp, ch)
    /\ op' = "updateChannel"
    /\ UNCHANGED <<args, err, sent, resp, srv>>

MergeNext == Merge

MergeSpec == MergeInit /\ [][MergeNext]_vars

-----------------------------------------------------------------------------
(* Requests and outcomes of a RestClient call *)

\* url.PathEscape on the identifiers of the model
PathEscape(s) == IF s = "a/b" THEN "a%2Fb" ELSE s

\* path.Join: the non-empty elements, separated by slashes
RECURSIVE PathJoin(_)
PathJoin(segs) ==
    IF segs = <<>> THEN ""
    ELSE LET rest == PathJoin(Tail(segs))
         IN  IF Head(segs) = "" THEN rest
             ELSE IF rest = "" THEN Head(segs)
             ELSE Head(segs) \o "/" \o rest

\* path.Join("channels", url.PathEscape(ch.Type), url.PathEscape(ch.ID), tail)
ChannelPath(c, tail) == PathJoin(<<"channels", PathEscape(c.Type), PathEscape(c.ID), tail>>)

Request(method, path, params, body) ==
    [method |-> method, path |-> path, params |-> params, body |-> body]

\* what a handler leaves behind: the handle, the error it returns and the
\* RestClient calls it made
Result(c, e, calls) == [ch |-> c, err |-> e, sent |-> calls]

ErrTransport == "transport error"
ErrRemote == "remote error"
Panic == "panic: nil dereference"

EmptyResponse == queryResponse(Nil, NilSlice, NilSlice, NilSlice)

\* outcome of one RestClient call: the error it returns and what it decoded
\* into the result pointer
Failed(e, r) == [err |-> e, resp |-> r]
Answered(r) == [err |-> OK, resp |-> r]

\* return ch.client.Post(p, nil, body, nil) and its Delete counterpart: no
\* result pointer is passed, so the answer's body is dropped and the handle is
\* not touched
Call(c, req, out) == Result(c, out.err, <<req>>)

-----------------------------------------------------------------------------
(* The operations *)

QueryArgs == [watch |-> FALSE, state |-> TRUE, presence |-> FALSE]

MapMerge(m, n) == [x \in (DOMAIN m) \cup (DOMAIN n) |-> IF x \in DOMAIN n THEN n[x] ELSE m[x]]

queryMergesOnError(c, options, data, out) ==
    IF c.CreatedBy = Nil THEN Result(c, Panic, <<>>)
    ELSE LET payload == MapMerge([state |-> TRUE], options)
             d == MapPut(IF data = Nil THEN EmptyMap ELSE data,
                         "created_by", [id |-> c.CreatedBy.ID])
             req == Request("POST", ChannelPath(c, "query"), Nil, MapPut(payload, "data", d))
         IN  Result(updateChannel(out.resp, c), out.err, <<req>>)

query(c, options, data, out) ==
    IF c.CreatedBy = Nil THEN Result(c, Panic, <<>>)
    ELSE LET payload == MapMerge([state |-> TRUE], options)
             d == MapPut(IF data = Nil THEN EmptyMap ELSE data,
                         "created_by", [id |-> c.CreatedBy.ID])
             req == Request("POST", ChannelPath(c, "query"), Nil, MapPut(payload, "data", d))
         IN  IF out.err # OK THEN Result(c, out.err, <<req>>)
             ELSE Result(updateChannel(out.resp, c), OK, <<req>>)

CreateChannelUncheckedUser(client, options, userID, out) ==
    IF options.Type = "" THEN Result(Nil, "channel type is empty", <<>>)
    ELSE IF options.ID = "" THEN Result(Nil, "channel ID is empty", <<>>)
    ELSE query(NewChannel(client, options, userID), QueryArgs, options.Data, out)

CreateChannel(client, options, userID, out) ==
    IF options.Type = "" THEN Result(Nil, "channel type is empty", <<>>)
    ELSE IF options.ID = "" THEN Result(Nil, "channel ID is empty", <<>>)
    ELSE IF userID = "" THEN Result(Nil, "user ID is empty", <<>>)
    ELSE query(NewChannel(client, options, userID), QueryArgs, options.Data, out)

UpdateMerging(c, options, message, out) ==
    LET req == Request("POST", ChannelPath(c, ""), Nil, [data |-> options, message |-> message])
    IN  IF out.err # OK THEN Result(c, out.err, <<req>>)
        ELSE Result(updateChannel(out.resp, c), OK, <<req>>)

Update(c, options, message, out) ==
    Call(c, Request("POST", ChannelPath(c, ""), Nil,
                    [data |-> options, message |-> message]), out)

Delete(c, out) == Call(c, Request("DELETE", ChannelPath(c, ""), Nil, Nil), out)

\* a truncation sent to the channel itself
TruncateWrongPath(c, out) == Call(c, Request("POST", ChannelPath(c, ""), Nil, Nil), out)

Truncate(c, out) == Call(c, Request("POST", ChannelPath(c, "truncate"), Nil, Nil), out)

AddMembersUnchecked(c, userIDs, out) ==
    Call(c, Request("POST", ChannelPath(c, ""), Nil, [add_members |-> userIDs]), out)

AddMembers(c, userIDs, out) ==
    IF Len(userIDs) = 0 THEN Result(c, "user IDs are empty", <<>>)
    ELSE Call(c, Request("POST", ChannelPath(c, ""), Nil, [add_members |-> userIDs]), out)

RemoveMembersNoMerge(c, userIDs, out) ==
    IF Len(userIDs) = 0 THEN Result(c, "user IDs are empty", <<>>)
    ELSE Call(c, Request("POST", ChannelPath(c, ""), Nil, [remove_members |-> userIDs]), out)

RemoveMembers(c, userIDs, out) ==
    IF Len(userIDs) = 0 THEN Result(c, "user IDs are empty", <<>>)
    ELSE LET req == Request("POST", ChannelPath(c, ""), Nil, [remove_members |-> userIDs])
         IN  IF out.err # OK THEN Result(c, out.err, <<req>>)
             ELSE Result(updateChannel(out.resp, c), OK, <<req>>)

\* a promotion sent as an addition of members
AddModeratorsAsMembers(c, userIDs, out) ==
    IF Len(userIDs) = 0 THEN Result(c, "user IDs are empty", <<>>)
    ELSE Call(c, Request("POST", ChannelPath(c, ""), Nil, [add_members |-> userIDs]), out)

AddModerators(c, userIDs, out) ==
    IF Len(userIDs) = 0 THEN Result(c, "user IDs are empty", <<>>)
    ELSE Call(c, Request("POST", ChannelPath(c, ""), Nil, [add_moderators |-> userIDs]), out)

DemoteModerators(c, userIDs, out) ==
    IF Len(userIDs) = 0 THEN Result(c, "user IDs are empty", <<>>)
    ELSE Call(c, Request("POST", ChannelPath(c, ""), Nil, [demote_moderators |-> userIDs]), out)

MarkRead(c, userID, options, out) ==
    IF userID = "" THEN Result(c, "user ID must be not empty", <<>>)
    ELSE LET opts == IF options = Nil THEN EmptyMap ELSE options
         IN  Call(c, Request("POST", ChannelPath(c, "read"), Nil,
                             MapPut(opts, "user", [id |-> userID])), out)

BanUserNilOptions(c, targetID, userID, options, out) ==
    IF targetID = "" THEN Result(c, "target ID is empty", <<>>)
    ELSE IF userID = "" THEN Result(c, "user ID is empty", <<>>)
    ELSE IF options = Nil THEN Result(c, Panic, <<>>)
    ELSE Call(c, Request("POST", "moderation/ban", Nil,
                         MapPut(MapPut(MapPut(MapPut(options, "type", c.Type), "id", c.ID),
                                       "target_user_id", targetID), "user_id", userID)), out)

\* a ban whose options are written over the scoping keys
BanUserOptionsLast(c, targetID, userID, options, out) ==
    IF targetID = "" THEN Result(c, "target ID is empty", <<>>)
    ELSE IF userID = "" THEN Result(c, "user ID is empty", <<>>)
    ELSE LET opts == IF options = Nil THEN EmptyMap ELSE options
             body == MapMerge([type |-> c.Type, id |-> c.ID, target_user_id |-> targetID,
                               user_id |-> userID], opts)
         IN  Call(c, Request("POST", "moderation/ban", Nil, body), out)

BanUser(c, targetID, userID, options, out) ==
    IF targetID = "" THEN Result(c, "target ID is empty", <<>>)
    ELSE IF userID = "" THEN Result(c, "user ID is empty", <<>>)
    ELSE LET opts == IF options = Nil THEN EmptyMap ELSE options
             body == MapPut(MapPut(MapPut(MapPut(opts, "type", c.Type), "id", c.ID),
                                   "target_user_id", targetID), "user_id", userID)
         IN  Call(c, Request("POST", "moderation/ban", Nil, body), out)

\* an unban that names the target and not the channel
UnBanUserUnscoped(c, targetID, options, out) ==
    IF targetID = "" THEN Result(c, "target ID must be not empty", <<>>)
    ELSE LET opts == IF options = Nil THEN EmptyMap ELSE options
             o == MapPut(opts, "target_user_id", targetID)
             params == [k \in DOMAIN o |-> <<o[k]>>]
         IN  Call(c, Request("DELETE", "moderation/ban", params, Nil), out)

UnBanUser(c, targetID, options, out) ==
    IF targetID = "" THEN Result(c, "target ID must be not empty", <<>>)
    ELSE LET opts == IF options = Nil THEN EmptyMap ELSE options
             o == MapPut(MapPut(MapPut(opts, "type", c.Type), "id", c.ID),
                         "target_user_id", targetID)
             params == [k \in DOMAIN o |-> <<o[k]>>]
         IN  Call(c, Request("DELETE", "moderation/ban", params, Nil), out)

\* invitations: the caller offers membership to users, and records a user's
\* answer; the answer to an accept or reject is merged when it has a snapshot
InviteMembers(c, userIDs, out) ==
    IF Len(userIDs) = 0 THEN Result(c, "user IDs are empty", <<>>)
    ELSE Call(c, Request("POST", ChannelPath(c, ""), Nil, [invites |-> userIDs]), out)

InviteAnswer(c, userID, message, key, out) ==
    IF userID = "" THEN Result(c, "user ID must be not empty", <<>>)
    ELSE LET body == [k \in {key, "user_id"} |-> IF k = key THEN "true" ELSE userID]
             req == Request("POST", ChannelPath(c, ""), Nil,
                            IF message = Nil THEN body ELSE MapPut(body, "message", message))
         IN  IF out.err # OK THEN Result(c, out.err, <<req>>)
             ELSE Result(updateChannel(out.resp, c), OK, <<req>>)

AcceptInvite(c, userID, message, out) == InviteAnswer(c, userID, message, "accept_invite", out)

RejectInvite(c, userID, message, out) == InviteAnswer(c, userID, message, "reject_invite", out)

\* a refresh that drops the snapshot it is answered with
refreshWithoutMerge(c, out) ==
    IF c.CreatedBy = Nil THEN Result(c, Panic, <<>>)
    ELSE Call(c, query(c, QueryArgs, Nil, out).sent[1], out)

refresh(c, out) == query(c, QueryArgs, Nil, out)

-----------------------------------------------------------------------------
(* Arguments the caller passes *)

ChannelOptionsSet ==
    [Type : {"", "messaging"}, ID : {"", "general"},
     Data : {Nil, [members |-> <<"u1", "u2">>, created_by |-> [id |-> "u2"]]}]
UserIDArgs == {"", "u1"}
TargetIDArgs == {"", "u2"}
UserIDLists == {<<>>, <<"u1">>, <<"u1", "u2">>}
UpdateOptions == {Nil, [color |-> "blue"]}
UpdateMessages == {"", "color is blue"}
MarkReadOptions == {Nil, [messageID |-> "m1"]}
BanOptions == {Nil, [timeout |-> "3600", reason |-> "offensive language"],
               [type |-> "team", user_id |-> "u1"]}
UnBanOptions == {Nil, [type |-> "team"]}

-----------------------------------------------------------------------------
(* Spec: the RestClient answers anything *)

\* channel objects of Spec
SpecChannels ==
    {DecodedChannel(i, MkCID(i.Type, i.ID), IF f THEN User("u2") ELSE Nil, f,
                    IF f THEN 1 ELSE 0, NoLists, IF f THEN 2 ELSE 1) :
        i \in Idents, f \in BOOLEAN}

\* decoded bodies of Spec
SpecResponses ==
    {queryResponse(c, ms, mb, rd) :
        c \in {Nil} \cup SpecChannels,
        ms \in {NilSlice, Slice(<<Message("m1")>>)},
        mb \in {NilSlice, Slice(<<Member("u1")>>)},
        rd \in {NilSlice, Slice(<<User("u1")>>)}}

\* a body with every part present
FullResponse ==
    queryResponse(DecodedChannel([Type |-> "team", ID |-> "a/b"], "team:a/b",
                                 User("u2"), TRUE, 1, NoLists, 2),
                  Slice(<<Message("m1")>>), Slice(<<Member("u1")>>), Slice(<<User("u1")>>))

\* a failed call may have decoded nothing or a whole body
Failures == {Failed(e, r) : e \in {ErrTransport, ErrRemote}, r \in {EmptyResponse, FullResponse}}

\* outcomes of a call whose answer is decoded
Outcomes == Failures \cup {Answered(r) : r \in SpecResponses}

\* outcomes of a call made without a result pointer
BodylessOutcomes == Failures \cup {Answered(EmptyResponse), Answered(FullResponse)}

Init ==
    /\ ch = Nil
    /\ op = "init"
    /\ args = EmptyMap
    /\ err = OK
    /\ sent = <<>>
    /\ resp = EmptyResponse
    /\ srv = SrvInit

\* the caller's view after a call
Step(name, a, r) ==
    /\ ch' = r.ch
    /\ err' = r.err
    /\ sent' = r.sent
    /\ op' = name
    /\ args' = a
    /\ UNCHANGED resp

\* a call of handler H (H(out) what it leaves behind when its RestClient call
\* ends in out): when H returns before calling the RestClient there is no
\* outcome to draw, otherwise the RestClient answers with any of outs
Against(outs, name, a, H(_)) ==
    /\ IF H(Answered(EmptyResponse)).sent = <<>>
       THEN Step(name, a, H(Answered(EmptyResponse)))
       ELSE \E out \in outs : Step(name, a, H(out))
    /\ UNCHANGED srv

DoCreateChannel ==
    \E client \in Clients, options \in ChannelOptionsSet, userID \in UserIDArgs :
        Against(Outcomes, "CreateChannel",
                [client |-> client, options |-> options, userID |-> userID],
                LAMBDA out : CreateChannel(client, options, userID, out))

DoRefresh ==
    /\ ch # Nil
    /\ Against(Outcomes, "refresh", EmptyMap, LAMBDA out : refresh(ch, out))

DoUpdate ==
    /\ ch # Nil
    /\ \E options \in UpdateOptions, message \in UpdateMessages :
        Against(BodylessOutcomes, "Update", [options |-> options, message |-> message],
                LAMBDA out : Update(ch, options, message, out))

DoDelete ==
    /\ ch # Nil
    /\ Against(BodylessOutcomes, "Delete", EmptyMap, LAMBDA out : Delete(ch, out))

DoTruncate ==
    /\ ch # Nil
    /\ Against(BodylessOutcomes, "Truncate", EmptyMap, LAMBDA out : Truncate(ch, out))

DoAddMembers ==
    /\ ch # Nil
    /\ \E userIDs \in UserIDLists :
        Against(BodylessOutcomes, "AddMembers", [userIDs |-> userIDs],
                LAMBDA out : AddMembers(ch, userIDs, out))

DoRemoveMembers ==
    /\ ch # Nil
    /\ \E userIDs \in UserIDLists :
        Against(Outcomes, "RemoveMembers", [userIDs |-> userIDs],
                LAMBDA out : RemoveMembers(ch, userIDs, out))

DoAddModerators ==
    /\ ch # Nil
    /\ \E userIDs \in UserIDLists :
        Against(BodylessOutcomes, "AddModerators", [userIDs |-> userIDs],
                LAMBDA out : AddModerators(ch, userIDs, out))

DoDemoteModerators ==
    /\ ch # Nil
    /\ \E userIDs \in UserIDLists :
        Against(BodylessOutcomes, "DemoteModerators", [userIDs |-> userIDs],
                LAMBDA out : DemoteModerators(ch, userIDs, out))

DoMarkRead ==
    /\ ch # Nil
    /\ \E userID \in UserIDArgs, options \in MarkReadOptions :
        Against(BodylessOutcomes, "MarkRead", [userID |-> userID, options |-> options],
                LAMBDA out : MarkRead(ch, userID, options, out))

DoBanUser ==
    /\ ch # Nil
    /\ \E targetID \in TargetIDArgs, userID \in UserIDArgs, options \in BanOptions :
        Against(BodylessOutcomes, "BanUser",
                [targetID |-> targetID, userID |-> userID, options |-> options],
                LAMBDA out : BanUser(ch, targetID, userID, options, out))

DoUnBanUser ==
    /\ ch # Nil
    /\ \E targetID \in TargetIDArgs, options \in UnBanOptions :
        Against(BodylessOutcomes, "UnBanUser", [targetID |-> targetID, options |-> options],
                LAMBDA out : UnBanUser(ch, targetID, options, out))

Next ==
    \/ DoCreateChannel
    \/ DoRefresh
    \/ DoUpdate
    \/ DoDelete
    \/ DoTruncate
    \/ DoAddMembers
    \/ DoRemoveMembers
    \/ DoAddModerators
    \/ DoDemoteModerators
    \/ DoMarkRead
    \/ DoBanUser
    \/ DoUnBanUser

Spec == Init /\ [][Next]_vars

-----------------------------------------------------------------------------
(* ServerSpec: the remote service keeps one channel, messaging:general *)

TheChannel == [Type |-> "messaging", ID |-> "general"]
MessageIDs == <<"m1", "m2", "m3", "m4">>

\* an empty list is encoded as [] or, when the service omits empty lists, left
\* out
Encoded(list, omitEmpty) == IF list = <<>> /\ omitEmpty THEN NilSlice ELSE Slice(list)

\* the channel object the service reports, with the given member count
SrvChannel(s, count) ==
    DecodedChannel(TheChannel, MkCID(TheChannel.Type, TheChannel.ID), User(s.createdBy),
                   FALSE, count, NoLists, 1)

\* full snapshots of the channel
Snapshots(s) ==
    {queryResponse(SrvChannel(s, Len(s.members)), Encoded(s.messages, omitEmpty),
                   Encoded(s.members, omitEmpty), Encoded(s.read, omitEmpty)) :
        omitEmpty \in BOOLEAN}

HasMember(members, u) == \E i \in 1..Len(members) : members[i].UserID = u

RECURSIVE SrvAdd(_, _, _)
\* users of ids that are not members yet join with the given role; members
\* among ids take the role when it is moderator
SrvAdd(members, ids, role) ==
    IF ids = <<>> THEN members
    ELSE LET u == Head(ids)
             now == IF HasMember(members, u)
                    THEN [i \in 1..Len(members) |->
                            IF members[i].UserID = u /\ role = "moderator"
                            THEN [members[i] EXCEPT !.Role = role] ELSE members[i]]
                    ELSE Append(members, ChannelMember(u, role, FALSE, 0, 0))
         IN  SrvAdd(now, Tail(ids), role)

SrvRemove(members, ids) == SelectSeq(members, LAMBDA m : m.UserID \notin Range(ids))

RECURSIVE SrvInvite(_, _)
\* users of ids that are not members yet become invited members
SrvInvite(members, ids) ==
    IF ids = <<>> THEN members
    ELSE LET u == Head(ids)
         IN  SrvInvite(IF HasMember(members, u) THEN members
                       ELSE Append(members, ChannelMember(u, "member", TRUE, 0, 0)),
                       Tail(ids))

\* the invitation of user u is open: made and not answered
InviteOpen(members, u) ==
    \E i \in 1..Len(members) :
        /\ members[i].UserID = u /\ members[i].Invited
        /\ members[i].InviteAcceptedAt = 0 /\ members[i].InviteRejectedAt = 0

\* user u answers the invitation at time now
SrvAnswer(members, u, accept, now) ==
    [i \in 1..Len(members) |->
        IF members[i].UserID # u THEN members[i]
        ELSE IF accept THEN [members[i] EXCEPT !.InviteAcceptedAt = now]
        ELSE [members[i] EXCEPT !.InviteRejectedAt = now]]

SrvDemote(members, ids) ==
    [i \in 1..Len(members) |->
        IF members[i].UserID \in Range(ids) THEN [members[i] EXCEPT !.Role = "member"]
        ELSE members[i]]

\* create-or-get
SrvQuery(s, body) ==
    IF s.exists THEN s
    ELSE [exists |-> TRUE, createdBy |-> body.data.created_by.id,
          members |-> IF "members" \in DOMAIN body.data
                      THEN SrvAdd(<<>>, body.data.members, "member") ELSE <<>>,
          messages |-> <<>>, read |-> <<>>, banned |-> {}]

\* the state after a request other than create-or-get, on an existing channel
SrvApply(s, req) ==
    IF req.path = "channels/messaging/general/truncate" THEN [s EXCEPT !.messages = <<>>]
    ELSE IF req.path = "channels/messaging/general/read"
    THEN IF \E i \in 1..Len(s.read) : s.read[i].ID = req.body.user.id THEN s
         ELSE [s EXCEPT !.read = Append(@, User(req.body.user.id))]
    ELSE IF req.path = "channels/messaging/general" /\ req.method = "DELETE" THEN SrvInit
    ELSE IF req.path = "channels/messaging/general" /\ "add_members" \in DOMAIN req.body
    THEN [s EXCEPT !.members = SrvAdd(@, req.body.add_members, "member")]
    ELSE IF req.path = "channels/messaging/general" /\ "remove_members" \in DOMAIN req.body
    THEN [s EXCEPT !.members = SrvRemove(@, req.body.remove_members)]
    ELSE IF req.path = "channels/messaging/general" /\ "add_moderators" \in DOMAIN req.body
    THEN [s EXCEPT !.members = SrvAdd(@, req.body.add_moderators, "moderator")]
    ELSE IF req.path = "channels/messaging/general" /\ "demote_moderators" \in DOMAIN req.body
    THEN [s EXCEPT !.members = SrvDemote(@, req.body.demote_moderators)]
    ELSE IF req.path = "channels/messaging/general" /\ "invites" \in DOMAIN req.body
    THEN [s EXCEPT !.members = SrvInvite(@, req.body.invites)]
    ELSE IF req.path = "channels/messaging/general" /\ "accept_invite" \in DOMAIN req.body
    THEN [s EXCEPT !.members = SrvAnswer(@, req.body.user_id, TRUE, 1)]
    ELSE IF req.path = "channels/messaging/general" /\ "reject_invite" \in DOMAIN req.body
    THEN [s EXCEPT !.members = SrvAnswer(@, req.body.user_id, FALSE, 1)]
    ELSE IF req.path = "moderation/ban" /\ req.method = "POST"
    THEN [s EXCEPT !.banned = @ \cup {req.body.target_user_id}]
    ELSE IF req.path = "moderation/ban" /\ req.method = "DELETE"
    THEN [s EXCEPT !.banned = @ \ {req.params.target_user_id[1]}]
    ELSE s

\* a ban record is kept per channel: a request to create or remove one names
\* the channel by type and id, in the body or in the query parameters
SrvScoped(req) ==
    IF req.path # "moderation/ban" THEN TRUE
    ELSE IF req.method = "POST"
    THEN /\ {"type", "id"} \subseteq DOMAIN req.body
         /\ req.body.type = TheChannel.Type /\ req.body.id = TheChannel.ID
    ELSE /\ req.params # Nil /\ {"type", "id"} \subseteq DOMAIN req.params
         /\ req.params.type = <<TheChannel.Type>> /\ req.params.id = <<TheChannel.ID>>

\* an answer to an invitation needs an open invitation of that user
SrvAnswerable(s, req) ==
    (/\ req.path = "channels/messaging/general" /\ req.method = "POST"
     /\ DOMAIN req.body \cap {"accept_invite", "reject_invite"} # {})
    => InviteOpen(s.members, req.body.user_id)

\* the removal of a ban record that does not exist may be refused
SrvMayRefuse(s, req) ==
    /\ req.path = "moderation/ban" /\ req.method = "DELETE"
    /\ req.params.target_user_id[1] \notin s.banned

\* bodies the service answers a request other than create-or-get with: the
\* removal of members answers with the member list, with or without a channel
\* object, whose member count may be the one before the removal
SrvBodies(s, t, req) ==
    IF req.path = "channels/messaging/general" /\ req.method = "POST"
       /\ "remove_members" \in DOMAIN req.body
    THEN {queryResponse(c, NilSlice, Slice(t.members), NilSlice) :
            c \in {Nil, SrvChannel(t, Len(t.members)), SrvChannel(t, Len(s.members))}}
    ELSE IF req.path = "channels/messaging/general" /\ req.method = "POST"
            /\ DOMAIN req.body \cap {"accept_invite", "reject_invite"} # {}
    THEN {EmptyResponse} \cup Snapshots(t)
    ELSE {EmptyResponse}

\* the replies to a request: the state of the service afterwards and the
\* outcome the RestClient reports. The request may be lost on the way; a
\* channel that does not exist is a remote error.
Serve(s, req) ==
    {[srv |-> t, out |-> Failed(ErrTransport, EmptyResponse)] : t \in {s}} \cup
    IF req.path = "channels/messaging/general/query"
    THEN {[srv |-> SrvQuery(s, req.body), out |-> Answered(r)] :
            r \in Snapshots(SrvQuery(s, req.body))}
    ELSE IF ~s.exists \/ ~SrvScoped(req) \/ ~SrvAnswerable(s, req)
    THEN {[srv |-> s, out |-> Failed(ErrRemote, EmptyResponse)]}
    ELSE {[srv |-> SrvApply(s, req), out |-> Answered(r)] :
            r \in SrvBodies(s, SrvApply(s, req), req)} \cup
         {[srv |-> t, out |-> Failed(ErrRemote, EmptyResponse)] :
            t \in IF SrvMayRefuse(s, req) THEN {s} ELSE {}}

\* a call of handler H against the service
Via(name, a, H(_)) ==
    IF H(Answered(EmptyResponse)).sent = <<>>
    THEN Step(name, a, H(Answered(EmptyResponse))) /\ UNCHANGED srv
    ELSE \E reply \in Serve(srv, H(Answered(EmptyResponse)).sent[1]) :
            Step(name, a, H(reply.out)) /\ srv' = reply.srv

SrvCreateChannel ==
    \E client \in {"client1"}, options \in ChannelOptionsSet, userID \in UserIDArgs :
        Via("CreateChannel", [client |-> client, options |-> options, userID |-> userID],
            LAMBDA out : CreateChannel(client, options, userID, out))

SrvRefresh == ch # Nil /\ Via("refresh", EmptyMap, LAMBDA out : refresh(ch, out))

SrvUpdate ==
    /\ ch # Nil
    /\ Via("Update", [options |-> Nil, message |-> ""], LAMBDA out : Update(ch, Nil, "", out))

SrvDelete == ch # Nil /\ Via("Delete", EmptyMap, LAMBDA out : Delete(ch, out))

SrvTruncate == ch # Nil /\ Via("Truncate", EmptyMap, LAMBDA out : Truncate(ch, out))

SrvAddMembers ==
    /\ ch # Nil
    /\ \E userIDs \in UserIDLists \ {<<>>} :
        Via("AddMembers", [userIDs |-> userIDs], LAMBDA out : AddMembers(ch, userIDs, out))

SrvRemoveMembers ==
    /\ ch # Nil
    /\ \E userIDs \in UserIDLists \ {<<>>} :
        Via("RemoveMembers", [userIDs |-> userIDs],
            LAMBDA out : RemoveMembers(ch, userIDs, out))

SrvAddModerators ==
    /\ ch # Nil
    /\ \E userIDs \in UserIDLists \ {<<>>} :
        Via("AddModerators", [userIDs |-> userIDs],
            LAMBDA out : AddModerators(ch, userIDs, out))

SrvDemoteModerators ==
    /\ ch # Nil
    /\ \E userIDs \in UserIDLists \ {<<>>} :
        Via("DemoteModerators", [userIDs |-> userIDs],
            LAMBDA out : DemoteModerators(ch, userIDs, out))

SrvMarkRead ==
    /\ ch # Nil
    /\ Via("MarkRead", [userID |-> "u1", options |-> Nil],
           LAMBDA out : MarkRead(ch, "u1", Nil, out))

SrvBanUser ==
    /\ ch # Nil
    /\ \E options \in BanOptions \ {[type |-> "team", user_id |-> "u1"]} :
        Via("BanUser", [targetID |-> "u2", userID |-> "u1", options |-> options],
            LAMBDA out : BanUser(ch, "u2", "u1", options, out))

SrvUnBanUser ==
    /\ ch # Nil
    /\ Via("UnBanUser", [targetID |-> "u2", options |-> Nil],
           LAMBDA out : UnBanUser(ch, "u2", Nil, out))

\* another participant posts a message to the channel
SrvPostMessage ==
    /\ srv.exists
    /\ Len(srv.messages) < MaxMessages
    /\ srv' = [srv EXCEPT !.messages = Append(@, Message(MessageIDs[Len(@) + 1]))]
    /\ UNCHANGED <<ch, op, args, err, sent, resp>>

ServerNext ==
    \/ SrvCreateChannel
    \/ SrvRefresh
    \/ SrvUpdate
    \/ SrvDelete
    \/ SrvTruncate
    \/ SrvAddMembers
    \/ SrvRemoveMembers
    \/ SrvAddModerators
    \/ SrvDemoteModerators
    \/ SrvMarkRead
    \/ SrvPostMessage

ServerSpec == Init /\ [][ServerNext]_vars

\* InviteSpec: the service under the operations around invitations
InviteMessages == {Nil, [Text |-> "accepted"]}

SrvInviteMembers ==
    /\ ch # Nil
    /\ \E userIDs \in UserIDLists :
        Via("InviteMembers", [userIDs |-> userIDs],
            LAMBDA out : InviteMembers(ch, userIDs, out))

SrvAcceptInvite ==
    /\ ch # Nil
    /\ \E userID \in UserIDArgs, message \in InviteMessages :
        Via("AcceptInvite", [userID |-> userID, message |-> message],
            LAMBDA out : AcceptInvite(ch, userID, message, out))

SrvRejectInvite ==
    /\ ch # Nil
    /\ \E userID \in UserIDArgs, message \in InviteMessages :
        Via("RejectInvite", [userID |-> userID, message |-> message],
            LAMBDA out : RejectInvite(ch, userID, message, out))

InviteNext ==
    \/ SrvCreateChannel
    \/ SrvRefresh
    \/ SrvRemoveMembers
    \/ SrvInviteMembers
    \/ SrvAcceptInvite
    \/ SrvRejectInvite

InviteSpec == Init /\ [][InviteNext]_vars

\* ModerationSpec: the service with its ban records, under the operations of
\* a moderator
ModerationNext ==
    \/ SrvCreateChannel
    \/ SrvRefresh
    \/ SrvDelete
    \/ SrvAddMembers
    \/ SrvBanUser
    \/ SrvUnBanUser

ModerationSpec == Init /\ [][ModerationNext]_vars

-----------------------------------------------------------------------------
(* RaceSpec: updateChannel statement by statement, on a handle that another
   goroutine uses at the same time. The handle has no lock: whatever state a
   statement leaves in ch is what the other goroutine reads. op is the
   statement the merge is at, args its local client and the handle it began
   with, err and sent the outcome of the other goroutine's call. *)

RaceInit ==
    /\ ch \in MergeHandles
    /\ resp \in SpecResponses
    /\ op = "init"
    /\ args = EmptyMap
    /\ err = OK
    /\ sent = <<>>
    /\ srv = SrvInit

\* if q.Channel != nil { client := ch.client
RaceSaveClient ==
    /\ op = "init"
    /\ args' = [client |-> ch.client, before |-> ch]
    /\ op' = IF resp.Channel # Nil THEN "copy" ELSE "members"
    /\ UNCHANGED <<ch, err, sent, resp, srv>>

\* *ch = *q.Channel
RaceCopy ==
    /\ op = "copy"
    /\ ch' = resp.Channel
    /\ op' = "restore"
    /\ UNCHANGED <<args, err, sent, resp, srv>>

\* ch.client = client
RaceRestoreClient ==
    /\ op = "restore"
    /\ ch' = [ch EXCEPT !.client = args.client]
    /\ op' = "members"
    /\ UNCHANGED <<args, err, sent, resp, srv>>

\* if q.Members != nil { ch.Members = q.Members }
RaceMembers ==
    /\ op = "members"
    /\ ch' = IF ~resp.Members.isNil THEN [ch EXCEPT !.Members = resp.Members] ELSE ch
    /\ op' = "messages"
    /\ UNCHANGED <<args, err, sent, resp, srv>>

\* if q.Messages != nil { ch.Messages = q.Messages }
RaceMessages ==
    /\ op = "messages"
    /\ ch' = IF ~resp.Messages.isNil THEN [ch EXCEPT !.Messages = resp.Messages] ELSE ch
    /\ op' = "read"
    /\ UNCHANGED <<args, err, sent, resp, srv>>

\* if q.Read != nil { ch.Read = q.Read }
RaceRead ==
    /\ op = "read"
    /\ ch' = IF ~resp.Read.isNil THEN [ch EXCEPT !.Read = resp.Read] ELSE ch
    /\ op' = "updateChannel"
    /\ UNCHANGED <<args, err, sent, resp, srv>>

\* the other goroutine calls ch.Truncate() once, at any moment: it reads the
\* handle as it is, and a call through a nil client panics
RaceTruncate ==
    /\ err = OK /\ sent = <<>>
    /\ LET r == IF ch.client = NoClient THEN Result(ch, Panic, <<>>)
                ELSE Truncate(ch, Answered(EmptyResponse))
       IN  err' = r.err /\ sent' = r.sent
    /\ UNCHANGED <<ch, op, args, resp, srv>>

RaceNext ==
    \/ RaceSaveClient
    \/ RaceCopy
    \/ RaceRestoreClient
    \/ RaceMembers
    \/ RaceMessages
    \/ RaceRead
    \/ RaceTruncate

RaceSpec == RaceInit /\ [][RaceNext]_vars

-----------------------------------------------------------------------------
(* Properties *)

ValidationErrors ==
    {"channel type is empty", "channel ID is empty", "user ID is empty",
     "user IDs are empty", "user ID must be not empty", "target ID is empty",
     "target ID must be not empty"}
CallErrors == {ErrTransport, ErrRemote}

SameLists(c, d) == \A f \in ListFields : c[f] = d[f]
SameMeta(c, d) == \A f \in MetaFields : c[f] = d[f]

\* C1: a merge of a response that has a channel object keeps the handle's
\* client and makes every other metadata field equal to the channel object's.
C1_MergeKeepsClientReplacesMeta ==
    [][(op = "init" /\ op' = "updateChannel" /\ resp.Channel # Nil)
        => (ch'.client = ch.client /\ SameMeta(ch', resp.Channel))]_vars

C1_Witness ==
    /\ op = "updateChannel"
    /\ resp.Channel # Nil
    /\ ch.client = "client2"
    /\ ch.ID = "a/b" /\ ch.Type = "team" /\ ch.CID = "team:a/b"
    /\ ch.CreatedBy = User("u2") /\ ch.Frozen /\ ch.MemberCount = 1
    /\ ch.UpdatedAt = 2

\* list f is nowhere in response q: neither at the top level nor inside its
\* channel object
AbsentFrom(q, f) == q[f].isNil /\ (q.Channel = Nil \/ q.Channel[f].isNil)

\* C2: a merge of a response, with or without a channel object, replaces each
\* of Members, Messages and Read only if that list is present in the response;
\* with members present and messages and read absent, Messages and Read are
\* what they were before the merge.
C2_AbsentListsUntouched ==
    [][(op = "init" /\ op' = "updateChannel")
        => \A f \in ListFields :
              /\ ~resp[f].isNil => ch'[f] = resp[f]
              /\ AbsentFrom(resp, f) => ch'[f] = ch[f]]_vars

\* C3: a call that fails leaves the handle as it was before the call; a failed
\* CreateChannel returns nil or the handle as constructed, never a merged one.
C3_FailedCallLeavesHandle ==
    [][(err' # OK /\ op' # "init")
        => IF op' = "CreateChannel"
           THEN ch' \in {Nil, NewChannel(args'.client, args'.options, args'.userID)}
           ELSE ch' = ch]_vars

C3_Witness ==
    /\ op = "RemoveMembers"
    /\ err = ErrRemote
    /\ Len(sent) = 1
    /\ ch # Nil
    /\ ch.Members = Slice(<<Member("u1")>>)
    /\ ch.CID = "messaging:general"

\* C4: AddMembers, RemoveMembers, AddModerators and DemoteModerators with an
\* empty user-ID list return a validation error, call the RestClient zero
\* times and leave the handle unchanged.
C4_EmptyUserIDsRejected ==
    [][(op' \in {"AddMembers", "RemoveMembers", "AddModerators", "DemoteModerators"}
        /\ vars' # vars /\ args'.userIDs = <<>>)
        => (err' = "user IDs are empty" /\ sent' = <<>> /\ ch' = ch)]_vars

C4_Witness ==
    /\ op = "AddMembers"
    /\ args.userIDs = <<>>
    /\ err = "user IDs are empty"
    /\ sent = <<>>
    /\ ch # Nil

\* C5: a successful Update, AddModerators, DemoteModerators, MarkRead, BanUser
\* or UnBanUser leaves Members, Messages and Read of the handle as they were.
C5_NoMergeOperationsKeepLists ==
    [][(op' \in {"Update", "AddModerators", "DemoteModerators", "MarkRead", "BanUser",
                 "UnBanUser"} /\ err' = OK)
        => SameLists(ch', ch)]_vars

C5_Witness ==
    /\ op = "Update"
    /\ err = OK
    /\ Len(sent) = 1
    /\ ch.Members = Slice(<<Member("u1")>>)
    /\ ch.Messages = Slice(<<Message("m1")>>)

\* C6: CreateChannel with the type and ID of a channel that exists already
\* does not fail at the service, and the handle it returns has the type, ID
\* and member count of that channel, as many Members as the count says, and
\* the client that was passed in.
C6_CreateOrGetExisting ==
    [][(/\ srv.exists /\ srv' = srv
        /\ op' = "CreateChannel"
        /\ args'.options.Type = TheChannel.Type
        /\ args'.options.ID = TheChannel.ID
        /\ args'.userID # "")
        => /\ err' \in {OK, ErrTransport}
           /\ err' = OK =>
                /\ ch'.Type = TheChannel.Type
                /\ ch'.ID = TheChannel.ID
                /\ ch'.MemberCount = Len(srv.members)
                /\ SliceLen(ch'.Members) = ch'.MemberCount
                /\ ch'.client = args'.client]_vars

C6_Witness ==
    /\ op = "CreateChannel"
    /\ err = OK
    /\ srv.exists
    /\ Len(srv.members) = 1
    /\ ch.MemberCount = 1
    /\ SliceLen(ch.Members) = 1
    /\ ch.client = "client1"

\* C7: CreateChannel with an empty ID but with member data in the extra data
\* succeeds: it passes validation, and when the call is answered the handle has
\* a non-empty ID, the requested type and the given creator.
C7_CreateWithoutIDButMembers ==
    (/\ op = "CreateChannel"
     /\ args.options.Type # ""
     /\ args.options.ID = ""
     /\ args.options.Data # Nil
     /\ "members" \in DOMAIN args.options.Data
     /\ args.userID # "")
    => /\ err \notin ValidationErrors
       /\ err = OK => (ch # Nil /\ ch.ID # "" /\ ch.Type = args.options.Type)

\* C8: CreateChannel with an empty type, with an empty ID and no member data,
\* or with an empty creator ID returns an error and a nil handle and calls the
\* RestClient zero times.
C8_CreateChannelValidation ==
    (/\ op = "CreateChannel"
     /\ \/ args.options.Type = ""
        \/ (args.options.ID = "" /\ (args.options.Data = Nil
                                      \/ "members" \notin DOMAIN args.options.Data))
        \/ args.userID = "")
    => (err \in ValidationErrors /\ ch = Nil /\ sent = <<>>)

C8_Witness ==
    /\ op = "CreateChannel"
    /\ args.options.Type = "messaging"
    /\ args.options.ID = "general"
    /\ args.userID = ""
    /\ err = "user ID is empty"
    /\ ch = Nil

\* C9: BanUser with an empty target or acting user, UnBanUser with an empty
\* target and MarkRead with an empty user return a validation error before any
\* RestClient call; with non-empty IDs and nil options each issues its request.
C9_ModerationValidation ==
    /\ (op = "BanUser" /\ (args.targetID = "" \/ args.userID = ""))
        => (err \in ValidationErrors /\ sent = <<>>)
    /\ (op = "UnBanUser" /\ args.targetID = "")
        => (err \in ValidationErrors /\ sent = <<>>)
    /\ (op = "MarkRead" /\ args.userID = "")
        => (err \in ValidationErrors /\ sent = <<>>)
    /\ (op = "BanUser" /\ args.targetID # "" /\ args.userID # "" /\ args.options = Nil)
        => (Len(sent) = 1 /\ sent[1].path = "moderation/ban" /\ err \in CallErrors \cup {OK})
    /\ (op = "UnBanUser" /\ args.targetID # "" /\ args.options = Nil)
        => (Len(sent) = 1 /\ sent[1].path = "moderation/ban" /\ err \in CallErrors \cup {OK})
    /\ (op = "MarkRead" /\ args.userID # "" /\ args.options = Nil)
        => (Len(sent) = 1 /\ err \in CallErrors \cup {OK})

C9_Witness ==
    /\ op = "BanUser"
    /\ args.targetID = "u2" /\ args.userID = "u1" /\ args.options = Nil
    /\ err = OK
    /\ Len(sent) = 1
    /\ sent[1].body.target_user_id = "u2"

\* C10: after a successful RemoveMembers the handle's Members are the list the
\* service answered with, and none of them has a user ID of the removed list.
C10_RemovedMembersGone ==
    (op = "RemoveMembers" /\ err = OK)
    => /\ ch.Members = Slice(srv.members)
       /\ \A i \in 1..SliceLen(ch.Members) :
            ch.Members.elems[i].User.ID \notin Range(args.userIDs)

C10_Witness ==
    /\ op = "RemoveMembers"
    /\ err = OK
    /\ args.userIDs = <<"u1">>
    /\ ch.Members = Slice(<<Member("u2")>>)

\* the user IDs of the handle's local Members
MemberIDs(c) == {c.Members.elems[i].UserID : i \in 1..SliceLen(c.Members)}

\* C11: a successful AddMembers leaves the handle's Members as they were, and
\* a successful refresh that follows a successful AddMembers leaves every
\* added user in the handle's Members.
C11_AddThenRefreshShowsMember ==
    [][/\ (op' = "AddMembers" /\ err' = OK) => ch'.Members = ch.Members
       /\ (op = "AddMembers" /\ err = OK /\ op' = "refresh" /\ err' = OK)
            => Range(args.userIDs) \subseteq MemberIDs(ch')]_vars

C11_Witness ==
    /\ op = "AddMembers"
    /\ err = OK
    /\ args.userIDs = <<"u1">>
    /\ HasMember(srv.members, "u1")
    /\ SliceLen(ch.Members) = 0

\* C12: after a successful CreateChannel or refresh the handle has as many
\* Members as its MemberCount says; the two come apart only in a successful
\* RemoveMembers.
C12_MembersMatchCount ==
    [][/\ (op' \in {"CreateChannel", "refresh"} /\ err' = OK)
            => SliceLen(ch'.Members) = ch'.MemberCount
       /\ (/\ ch # Nil /\ ch' # Nil
           /\ SliceLen(ch.Members) = ch.MemberCount
           /\ SliceLen(ch'.Members) # ch'.MemberCount)
            => (op' = "RemoveMembers" /\ err' = OK)]_vars

C12_Witness ==
    /\ op = "RemoveMembers"
    /\ err = OK
    /\ SliceLen(ch.Members) = 1
    /\ ch.MemberCount = 2
    /\ Len(srv.members) = 1

\* C13: on a channel the service has, BanUser does not fail at the service; an
\* UnBanUser of the same target that follows a successful BanUser does not
\* fail either, nor does a second BanUser with options that follows a
\* successful BanUser without; none of them changes the handle's Members.
C13_BanUnbanRoundTrip ==
    [][/\ (ch # Nil /\ srv.exists /\ op' = "BanUser" /\ srv'.messages = srv.messages)
            => (err' \in {OK, ErrTransport} /\ ch'.Members = ch.Members)
       /\ (/\ op = "BanUser" /\ err = OK
           /\ op' = "UnBanUser" /\ args'.targetID = args.targetID)
            => (err' \in {OK, ErrTransport} /\ ch'.Members = ch.Members)
       /\ (/\ op = "BanUser" /\ err = OK /\ args.options = Nil
           /\ op' = "BanUser" /\ args'.options # Nil /\ args'.targetID = args.targetID)
            => (err' \in {OK, ErrTransport} /\ ch'.Members = ch.Members)]_vars

C13_Witness ==
    /\ op = "UnBanUser"
    /\ err = OK
    /\ args.targetID = "u2"
    /\ srv.exists
    /\ srv.banned = {}
    /\ ch.Members = Slice(<<Member("u1"), Member("u2")>>)

\* C14: Truncate leaves the handle's Messages as they were and, when it
\* succeeds, the channel at the service without messages; a successful refresh
\* that follows a successful Truncate on a handle with Messages, no message
\* having been sent since, leaves the handle without Messages, with the type, ID and CID it had, and
\* with the Members it had when these were the members of the channel.
C14_TruncateThenRefreshEmpties ==
    [][/\ op' = "Truncate" => ch'.Messages = ch.Messages
       /\ (op' = "Truncate" /\ err' = OK /\ Len(srv'.messages) <= Len(srv.messages))
            => srv'.messages = <<>>
       /\ (/\ op = "Truncate" /\ err = OK /\ srv.messages = <<>>
           /\ SliceLen(ch.Messages) > 0
           /\ op' = "refresh" /\ err' = OK)
            => /\ SliceLen(ch'.Messages) = 0
               /\ ch'.Type = ch.Type /\ ch'.ID = ch.ID /\ ch'.CID = ch.CID
               /\ ch.Members.elems = srv.members
                    => ch'.Members.elems = ch.Members.elems]_vars

C14_Witness ==
    /\ op = "Truncate"
    /\ err = OK
    /\ ch.Messages = Slice(<<Message("m1")>>)
    /\ srv.messages = <<>>
    /\ SliceLen(ch.Members) = 2
    /\ ch.Members.elems = srv.members

\* the handle has a member entry for user u with the given role
HasRole(c, u, role) ==
    \E i \in 1..SliceLen(c.Members) :
        c.Members.elems[i].UserID = u /\ c.Members.elems[i].Role = role

\* C15: a successful refresh that follows a successful AddModerators leaves
\* every promoted user with a member entry of role moderator; a successful
\* refresh that follows a successful DemoteModerators leaves every demoted
\* user the handle knew as a moderator with a member entry of role member.
C15_ModeratorRoleRoundTrip ==
    [][/\ (op = "AddModerators" /\ err = OK /\ op' = "refresh" /\ err' = OK)
            => \A u \in Range(args.userIDs) : HasRole(ch', u, "moderator")
       /\ (op = "DemoteModerators" /\ err = OK /\ op' = "refresh" /\ err' = OK)
            => \A u \in Range(args.userIDs) :
                  HasRole(ch, u, "moderator")
                    => (HasRole(ch', u, "member") /\ ~HasRole(ch', u, "moderator"))]_vars

C15_Witness ==
    /\ op = "DemoteModerators"
    /\ err = OK
    /\ args.userIDs = <<"u1">>
    /\ HasRole(ch, "u1", "moderator")
    /\ srv.members = <<Member("u1")>>

\* no member of list l has both invitation timestamps, and a member that has
\* one was invited
InviteConsistent(l) ==
    \A i \in 1..SliceLen(l) :
        LET m == l.elems[i]
        IN  /\ ~(m.InviteAcceptedAt # 0 /\ m.InviteRejectedAt # 0)
            /\ (m.InviteAcceptedAt # 0 \/ m.InviteRejectedAt # 0) => m.Invited

\* the handle has a member entry for user u that is invited and unanswered
HasOpenInvite(c, u) ==
    \E i \in 1..SliceLen(c.Members) :
        LET m == c.Members.elems[i]
        IN  /\ m.UserID = u /\ m.Invited
            /\ m.InviteAcceptedAt = 0 /\ m.InviteRejectedAt = 0

\* C16: no member of the handle's Members has both InviteAcceptedAt and
\* InviteRejectedAt, and one that has either is Invited; a successful
\* InviteMembers leaves the users who were no members with an open invitation,
\* and after a successful refresh that follows it these have a member entry
\* with Invited true and neither timestamp.
C16_InviteStateExclusive ==
    [][/\ ch' # Nil => InviteConsistent(ch'.Members)
       /\ (op' = "InviteMembers" /\ err' = OK)
            => \A u \in Range(args'.userIDs) :
                  ~HasMember(srv.members, u) => InviteOpen(srv'.members, u)
       /\ (op = "InviteMembers" /\ err = OK /\ op' = "refresh" /\ err' = OK)
            => \A u \in Range(args.userIDs) :
                  InviteOpen(srv.members, u) => HasOpenInvite(ch', u)]_vars

C16_Witness ==
    /\ op = "refresh"
    /\ err = OK
    /\ HasOpenInvite(ch, "u2")
    /\ \E i \in 1..SliceLen(ch.Members) :
          ch.Members.elems[i].UserID = "u1" /\ ch.Members.elems[i].InviteAcceptedAt # 0

\* C17: a merge of a response without a channel object leaves the metadata
\* and the client of the handle as they were, makes each of Members, Messages
\* and Read that is present in the response exactly the response's list, and
\* leaves the others as they were.
C17_NoChannelObjectMerge ==
    [][(op = "init" /\ op' = "updateChannel" /\ resp.Channel = Nil)
        => /\ SameMeta(ch', ch)
           /\ ch'.client = ch.client
           /\ \A f \in ListFields :
                 ch'[f] = IF resp[f].isNil THEN ch[f] ELSE resp[f]]_vars

C17_Witness ==
    /\ op = "updateChannel"
    /\ resp.Channel = Nil
    /\ resp.Members = Slice(<<Member("u2")>>) /\ resp.Messages.isNil
    /\ ch.Members = Slice(<<Member("u2")>>)
    /\ SliceLen(ch.Messages) = 1
    /\ ch.Frozen /\ ch.MemberCount = 1 /\ ch.client = "client2"

\* C18: every handle CreateChannel has returned, with or without an error and
\* after any operations, has a CID that is its type, a colon and its ID.
C18_CIDIsTypeColonID == ch # Nil => ch.CID = MkCID(ch.Type, ch.ID)

\* C19: every create-or-get request, of CreateChannel and of refresh, is built
\* and carries in its data a created_by whose id is the handle's creator, which
\* extra data of the caller neither removes nor replaces; refresh never fails
\* before its request is sent.
C19_CreatedByAlwaysSent ==
    /\ (op = "CreateChannel" /\ err \notin ValidationErrors)
        => /\ Len(sent) = 1
           /\ sent[1].body.data.created_by = [id |-> args.userID]
    /\ op = "refresh"
        => /\ err # Panic
           /\ Len(sent) = 1
           /\ "created_by" \in DOMAIN sent[1].body.data
           /\ err # OK => sent[1].body.data.created_by = [id |-> ch.CreatedBy.ID]

\* the keys that scope a ban
ScopingKeys == {"type", "id", "target_user_id", "user_id"}

\* C20: the body of every BanUser request has the handle's Type and ID as type
\* and id, the target as target_user_id and the acting user as user_id, next
\* to the caller's other options; every UnBanUser request has no body and has
\* type, id and target_user_id as query parameters; options of the caller
\* under these keys are overridden.
C20_BanScopingKeys ==
    /\ (op = "BanUser" /\ sent # <<>>)
        => LET b == sent[1].body
           IN  /\ sent[1].method = "POST" /\ sent[1].params = Nil
               /\ b.type = ch.Type /\ b.id = ch.ID
               /\ b.target_user_id = args.targetID /\ b.user_id = args.userID
               /\ args.options # Nil
                    => \A k \in DOMAIN args.options \ ScopingKeys :
                          k \in DOMAIN b /\ b[k] = args.options[k]
    /\ (op = "UnBanUser" /\ sent # <<>>)
        => LET q == sent[1].params
           IN  /\ sent[1].method = "DELETE" /\ sent[1].body = Nil
               /\ q.type = <<ch.Type>> /\ q.id = <<ch.ID>>
               /\ q.target_user_id = <<args.targetID>>
               /\ args.options # Nil
                    => \A k \in DOMAIN args.options \ ScopingKeys :
                          k \in DOMAIN q /\ q[k] = <<args.options[k]>>

C20_Witness ==
    /\ op = "BanUser"
    /\ args.options = [type |-> "team", user_id |-> "u1"]
    /\ args.targetID = "u2" /\ args.userID = "u1"
    /\ ch.Type = "messaging"
    /\ Len(sent) = 1
    /\ sent[1].body.type = "messaging"

\* the merge of RaceSpec, once through, leaves what updateChannel computes
RaceEndsAsUpdateChannel ==
    op = "updateChannel" => ch = updateChannel(resp, args.before)

\* C21: while a merge is applied to a handle, what another goroutine reads
\* from the handle is the handle as it was before the merge or as it is after
\* the whole merge, and its call on the handle finds the client in place.
C21_NoTornMerge ==
    /\ op # "init" => ch \in {args.before, updateChannel(resp, args.before)}
    /\ err # Panic

====
